---- MODULE Spec2Model ----
(***************************************************************************)
(* Model of scripts/regenerate-all-fixtures.py: main() builds the          *)
(* packages, discovers the *.td fixtures in sorted order, runs one node    *)
(* subprocess per fixture that parses it and writes the .ast.json          *)
(* artifact, counts the outcomes, prints a summary and exits.              *)
(*                                                                         *)
(* File names are sequences of character codes, paths are sequences of     *)
(* names, file contents are sequences of character codes.  The build, the  *)
(* parser and the operating system are the environment: their outcomes     *)
(* are nondeterministic choices made in the actions.                       *)
(***************************************************************************)
EXTENDS Integers, Sequences, FiniteSets, TLC

\* Largest number of directory entries under syntax-tests/fixtures.
MaxFiles == 3
\* Number of successive invocations of the tool (specification SpecTwice).
MaxRuns == 2

VARIABLES
    pc,             \* position of main(): NotStarted, discover, loop, node,
                    \* record, Completed, BuildFailed, Crashed
    exit_code,      \* process exit status, -1 while the process runs
    tree,           \* paths, relative to fixtures_dir, of the files below it
    disk,           \* absolute path -> [exists, data]
    disk0,          \* the disk when the current run started
    build_result,   \* outcome of the pnpm build of this run, "none" before it
    builds,         \* number of build subprocesses started in this run
    discoveries,    \* number of times rglob ran in this run
    td_files,       \* the list built at line 29
    idx,            \* 1-based position of the for loop in td_files
    success_count,
    fail_count,
    result,         \* the CompletedProcess of the last node subprocess
    inflight,       \* loop positions whose node subprocess is started and not awaited
    launches,       \* number of node subprocesses started in this run
    log,            \* the lines printed to stdout, in order
    outcomes,       \* the per-file outcomes counted so far, in order
    behav,          \* what the node subprocess of each processed file did
    written,        \* artifact paths whose content a node subprocess touched in this run
    run,            \* number of the current invocation
    prev            \* summary of the previous invocation (SpecTwice)

vars == <<pc, exit_code, tree, disk, disk0, build_result, builds, discoveries,
          td_files, idx, success_count, fail_count, result, inflight, launches,
          log, outcomes, behav, written, run, prev>>

(***************************************************************************)
(* Names and paths.                                                        *)
(***************************************************************************)
\* ".td", the glob pattern's extension.
TdSuffix == <<46, 116, 100>>
\* ".ast.json"
AstSuffix == <<46, 97, 115, 116, 46, 106, 115, 111, 110>>
\* Path("syntax-tests/fixtures")
fixtures_dir ==
    << <<115, 121, 110, 116, 97, 120, 45, 116, 101, 115, 116, 115>>,
       <<102, 105, 120, 116, 117, 114, 101, 115>> >>
\* Path.cwd(): an absolute directory, here /w.
Cwd == << <<47>>, <<119>> >>

\* The directory entries the fixtures tree may hold, relative to fixtures_dir:
\* a/x.td, a-b/x.td, a.td, b.td and a/n.md.
Candidates ==
    { << <<97>>, <<120, 46, 116, 100>> >>,
      << <<97, 45, 98>>, <<120, 46, 116, 100>> >>,
      << <<97, 46, 116, 100>> >>,
      << <<98, 46, 116, 100>> >>,
      << <<97>>, <<110, 46, 109, 100>> >> }

\* str.__lt__: code point by code point, a proper prefix is smaller.
RECURSIVE StrLess(_, _)
StrLess(a, b) ==
    IF b = <<>> THEN FALSE
    ELSE IF a = <<>> THEN TRUE
    ELSE IF Head(a) = Head(b) THEN StrLess(Tail(a), Tail(b))
    ELSE Head(a) < Head(b)

\* PurePath.__lt__: the lists of parts compared element by element.
RECURSIVE PathLess(_, _)
PathLess(p, q) ==
    IF q = <<>> THEN FALSE
    ELSE IF p = <<>> THEN TRUE
    ELSE IF Head(p) = Head(q) THEN PathLess(Tail(p), Tail(q))
    ELSE StrLess(Head(p), Head(q))

RECURSIVE SeqOfSet(_)
SeqOfSet(S) ==
    IF S = {} THEN <<>>
    ELSE LET m == CHOOSE x \in S : \A y \in S \ {x} : PathLess(x, y)
         IN  <<m>> \o SeqOfSet(S \ {m})

RECURSIVE Reverse(_)
Reverse(s) == IF s = <<>> THEN <<>> ELSE Reverse(Tail(s)) \o <<Head(s)>>

\* A discovery that keeps rglob's directory order instead of sorting it.
unsorted(S) == Reverse(SeqOfSet(S))

\* sorted(...) of line 29: ascending by PurePath.__lt__.
sorted(S) == SeqOfSet(S)

\* Whether the name ends with the given suffix (the glob "*.td").
EndsWith(name, suffix) ==
    /\ Len(name) >= Len(suffix)
    /\ SubSeq(name, Len(name) - Len(suffix) + 1, Len(name)) = suffix

\* fixtures_dir.rglob("*.td"): every entry below fixtures_dir, at any depth,
\* whose last name matches, as a path that starts with fixtures_dir.
rglob(entries) ==
    { fixtures_dir \o p : p \in { e \in entries : EndsWith(e[Len(e)], TdSuffix) } }

\* Path.resolve(): the absolute path (the tree holds no symbolic links).
resolve(p) == Cwd \o p

\* Path.relative_to(base): the path with the base stripped.
relative_to(p, base) == SubSeq(p, Len(base) + 1, Len(p))

\* Index of the last "." of a name, 0 when there is none.
LastDot(name) ==
    LET dots == { i \in 1..Len(name) : name[i] = 46 }
    IN  IF dots = {} THEN 0 ELSE CHOOSE i \in dots : \A j \in dots : j <= i

\* Path.with_suffix(suffix): the last name's extension replaced.
with_suffix(p, suffix) ==
    LET name == p[Len(p)]
        d    == LastDot(name)
        stem == IF d = 0 THEN name ELSE SubSeq(name, 1, d - 1)
    IN  SubSeq(p, 1, Len(p) - 1) \o << stem \o suffix >>

\* td_file and ast_path of the loop body for the k-th discovered file.
TdFile(k) == resolve(td_files[k])
AstPath(k) == with_suffix(TdFile(k), AstSuffix)

(***************************************************************************)
(* File contents and the node script.                                      *)
(***************************************************************************)
Absent == [exists |-> FALSE, data |-> <<>>]
File(d) == [exists |-> TRUE, data |-> d]
\* An artifact left by an earlier version of the parser.
Stale == File(<<111, 108, 100>>)

\* The text of a fixture: its file name without the extension.
SourceText(p) == LET name == p[Len(p)] IN SubSeq(name, 1, LastDot(name) - 1)

\* parse(source) of the compiler package: a deterministic function of the text.
parse(source) == [type |-> "root", children |-> source]

\* JSON.stringify(ast, null, 2) + '\n'
Serialized(ast) == <<123>> \o ast.children \o <<125>> \o <<10>>

\* A write that appends to the artifact instead of replacing it.
appendFileSync(old, data) == File(old.data \o data)

\* writeFileSync(path, data): the file holds exactly data afterwards.
writeFileSync(old, data) == File(data)

\* What a write that fails can leave behind: nothing touched (the open
\* failed), or the file truncated by the open and a proper prefix written.
FailedWrites(old, data) ==
    {old} \cup { File(SubSeq(data, 1, n)) : n \in 0..(Len(data) - 1) }

\* What one run of the node script does for its fixture.
NodeBehaviours == {"ok", "read_err", "parse_err", "write_err"}

\* process.exit status of the node script.
Returncode(b) == IF b = "ok" THEN 0 ELSE 1

(***************************************************************************)
(* main()                                                                  *)
(***************************************************************************)
Line(kind, arg) == [kind |-> kind, arg |-> arg]

\* A build step whose failure is ignored.
BuildNeverHalts(rc) == FALSE

\* Line 21: the run stops when the build's return code is not 0.
BuildHalts(rc) == rc # 0

\* An exit status that tolerates one failure.
ExitCodeOffByOne(fails) == IF fails > 1 THEN 1 ELSE 0

\* Lines 87-88: sys.exit(1) when a file failed, else the script ends (0).
ExitCodeOf(fails) == IF fails > 0 THEN 1 ELSE 0

\* A launch that does not wait for the child (Popen without wait).
nowait(S, k) == S

\* subprocess.run returns only after the child has exited.
wait(S, k) == S \ {k}

TypeOK ==
    /\ pc \in {"NotStarted", "discover", "loop", "node", "record",
               "Completed", "BuildFailed", "Crashed"}
    /\ exit_code \in {-1, 0, 1}
    /\ success_count \in Nat /\ fail_count \in Nat
    /\ idx \in Nat
    /\ run \in 1..(MaxRuns + 1)

\* The absolute paths of the entries of a fixtures tree.
AbsEntries(T) == { resolve(fixtures_dir \o p) : p \in T }

\* The artifact paths of the fixtures of a tree.
AstPathsOf(T) == { with_suffix(resolve(q), AstSuffix) : q \in rglob(T) }

\* Before the first run: some fixtures tree, every source file present,
\* every artifact either absent or left over from an earlier run.
Init ==
    /\ pc = "NotStarted"
    /\ exit_code = -1
    /\ \E T \in SUBSET Candidates :
        /\ Cardinality(T) <= MaxFiles
        /\ tree = T
        /\ \E a \in [AstPathsOf(T) -> {Absent, Stale}] :
              disk = a @@ [f \in AbsEntries(T) |-> File(SourceText(f))]
    /\ disk0 = disk
    /\ build_result = "none"
    /\ builds = 0
    /\ discoveries = 0
    /\ td_files = <<>>
    /\ idx = 0
    /\ success_count = 0
    /\ fail_count = 0
    /\ result = [returncode |-> 0, stderr |-> ""]
    /\ inflight = {}
    /\ launches = 0
    /\ log = <<>>
    /\ outcomes = <<>>
    /\ behav = <<>>
    /\ written = {}
    /\ run = 1
    /\ prev = <<>>

\* An uncaught exception: traceback, exit status 1.
Crash ==
    /\ pc' = "Crashed"
    /\ exit_code' = 1

\* Lines 13-25: print the banner, run "pnpm build", stop when it failed.
\* subprocess.run raises OSError when pnpm cannot be started.
Build ==
    /\ pc = "NotStarted"
    /\ builds' = builds + 1
    /\ \E b \in {"ok", "nonzero", "oserror"} :
        /\ build_result' = b
        /\ IF b = "oserror"
           THEN /\ Crash
                /\ log' = log \o <<Line("step1", <<>>)>>
           ELSE IF BuildHalts(IF b = "ok" THEN 0 ELSE 1)
           THEN /\ pc' = "BuildFailed"
                /\ exit_code' = 1
                /\ log' = log \o <<Line("step1", <<>>), Line("build_failed", <<>>)>>
           ELSE /\ pc' = "discover"
                /\ exit_code' = exit_code
                /\ log' = log \o <<Line("step1", <<>>), Line("build_complete", <<>>)>>
    /\ UNCHANGED <<tree, disk, disk0, discoveries, td_files, idx, success_count,
                   fail_count, result, inflight, launches, outcomes, behav,
                   written, run, prev>>

\* Lines 28-35: discover and sort the fixtures, zero the counters.
Discover ==
    /\ pc = "discover"
    /\ td_files' = sorted(rglob(tree))
    /\ discoveries' = discoveries + 1
    /\ log' = log \o <<Line("found", <<Len(td_files')>>)>>
    /\ success_count' = 0
    /\ fail_count' = 0
    /\ idx' = 1
    /\ pc' = "loop"
    /\ UNCHANGED <<exit_code, tree, disk, disk0, build_result, builds, result,
                   inflight, launches, outcomes, behav, written, run, prev>>

\* Lines 37-68, up to the start of the child: print "Processing:", build the
\* script and start node.  subprocess.run raises OSError when node cannot be
\* started; nothing in main() catches it.
Launch ==
    /\ pc = "loop"
    /\ idx <= Len(td_files)
    /\ log' = log \o <<Line("processing", relative_to(TdFile(idx), Cwd))>>
    /\ \/ /\ pc' = "node"
          /\ inflight' = inflight \cup {idx}
          /\ launches' = launches + 1
          /\ UNCHANGED <<exit_code, behav>>
       \/ /\ Crash
          /\ behav' = Append(behav, "launch_err")
          /\ UNCHANGED <<inflight, launches>>
    /\ UNCHANGED <<tree, disk, disk0, build_result, builds, discoveries, td_files,
                   idx, success_count, fail_count, result, outcomes, written,
                   run, prev>>

\* Lines 46-60 run by the child, and subprocess.run's wait for it (63-68).
\* readFileSync is outside the try: its error ends node with status 1.
\* parse and writeFileSync are inside: their errors reach the catch, which
\* prints the message and exits with status 1.
NodeScript ==
    /\ pc = "node"
    /\ \E b \in NodeBehaviours :
        LET td   == TdFile(idx)
            ast  == AstPath(idx)
            data == Serialized(parse(disk[td].data))
        IN  /\ behav' = Append(behav, b)
            /\ result' = [returncode |-> Returncode(b),
                          stderr |-> IF b = "ok" THEN "" ELSE b]
            /\ IF b = "ok"
               THEN /\ disk' = [disk EXCEPT ![ast] = writeFileSync(disk[ast], data)]
                    /\ written' = written \cup {ast}
               ELSE IF b = "write_err"
               THEN \E c \in FailedWrites(disk[ast], data) :
                        /\ disk' = [disk EXCEPT ![ast] = c]
                        /\ written' = IF c = disk[ast] THEN written
                                      ELSE written \cup {ast}
               ELSE UNCHANGED <<disk, written>>
    /\ inflight' = wait(inflight, idx)
    /\ pc' = "record"
    /\ UNCHANGED <<exit_code, tree, disk0, build_result, builds, discoveries,
                   td_files, idx, success_count, fail_count, launches, log,
                   outcomes, run, prev>>

\* Lines 70-79: count and print the outcome, go on with the next file.
RecordBody(next) ==
    /\ pc = "record"
    /\ IF result.returncode = 0
       THEN /\ log' = log \o <<Line("generated", relative_to(AstPath(idx), Cwd))>>
            /\ success_count' = success_count + 1
            /\ fail_count' = fail_count
            /\ outcomes' = Append(outcomes, [file |-> td_files[idx], outcome |-> "Success"])
       ELSE /\ log' = log \o <<Line("failed", <<>>)>>
                          \o (IF result.stderr # "" THEN <<Line("error", <<>>)>> ELSE <<>>)
            /\ fail_count' = fail_count + 1
            /\ success_count' = success_count
            /\ outcomes' = Append(outcomes, [file |-> td_files[idx], outcome |-> "Failure"])
    /\ idx' = next
    /\ pc' = "loop"
    /\ UNCHANGED <<exit_code, tree, disk, disk0, build_result, builds, discoveries,
                   td_files, result, inflight, launches, behav, written, run, prev>>

\* A loop that gives up at the first file that fails.
RecordBreakOnFailure ==
    RecordBody(IF result.returncode = 0 THEN idx + 1 ELSE Len(td_files) + 1)

Record == RecordBody(idx + 1)

\* Lines 81-91: the loop is exhausted; print the summary and exit.
Finish ==
    /\ pc = "loop"
    /\ idx > Len(td_files)
    /\ log' = log \o <<Line("summary", <<success_count, fail_count>>)>>
    /\ exit_code' = ExitCodeOf(fail_count)
    /\ pc' = "Completed"
    /\ UNCHANGED <<tree, disk, disk0, build_result, builds, discoveries, td_files,
                   idx, success_count, fail_count, result, inflight, launches,
                   outcomes, behav, written, run, prev>>

Next == Build \/ Discover \/ Launch \/ NodeScript \/ Record \/ Finish

\* One invocation of the tool.
Spec == Init /\ [][Next]_vars

\* The tool is invoked again after a run that exited with status 0, over the
\* tree and the disk the previous run left.
Rerun ==
    /\ pc = "Completed"
    /\ exit_code = 0
    /\ run < MaxRuns
    /\ prev' = Append(prev, [disk |-> disk, success_count |-> success_count,
                             fail_count |-> fail_count, exit_code |-> exit_code])
    /\ run' = run + 1
    /\ pc' = "NotStarted"
    /\ exit_code' = -1
    /\ disk0' = disk
    /\ build_result' = "none"
    /\ builds' = 0
    /\ discoveries' = 0
    /\ td_files' = <<>>
    /\ idx' = 0
    /\ success_count' = 0
    /\ fail_count' = 0
    /\ result' = [returncode |-> 0, stderr |-> ""]
    /\ inflight' = {}
    /\ launches' = 0
    /\ log' = <<>>
    /\ outcomes' = <<>>
    /\ behav' = <<>>
    /\ written' = {}
    /\ UNCHANGED <<tree, disk>>

NextTwice == Next \/ Rerun

\* Successive invocations of the tool.
SpecTwice == Init /\ [][NextTwice]_vars

(***************************************************************************)
(* Vocabulary of the properties.                                           *)
(***************************************************************************)
\* The state of the run in the terms of the per-run state machine.  A build
\* that could not be started is a failed build; a run ended by an exception
\* raised in the loop is in none of the machine's states.
RunState ==
    CASE pc = "NotStarted" -> "NotStarted"
      [] pc \in {"discover", "loop", "node", "record"} -> "Running"
      [] pc = "Completed" -> "Completed"
      [] pc = "BuildFailed" -> "BuildFailed"
      [] pc = "Crashed" /\ build_result = "oserror" -> "BuildFailed"
      [] OTHER -> "Aborted"

\* The process has exited.
Exited == pc \in {"Completed", "BuildFailed", "Crashed"}

\* The fixtures the tree holds, whatever main() has found so far.
Discovered == rglob(tree)

\* The k-th fixture in ascending order of paths.
KthSmallest(S, k) ==
    CHOOSE x \in S : Cardinality({ y \in S : PathLess(y, x) }) = k - 1

\* The artifact a successful run of the node script leaves for a fixture.
Artifact(td) == File(Serialized(parse(SourceText(td))))

ProcessingLines == SelectSeq(log, LAMBDA l : l.kind = "processing")
OutcomeLines == SelectSeq(log, LAMBDA l : l.kind \in {"generated", "failed"})
\* The "Processing:" and outcome lines, in the order they were printed.
ReportLines ==
    SelectSeq(log, LAMBDA l : l.kind \in {"processing", "generated", "failed"})

Failures == { k \in 1..Len(outcomes) : outcomes[k].outcome = "Failure" }

(***************************************************************************)
(* C1: when the run is complete, the exit code is non-zero iff the build   *)
(* failed or some discovered file ended with Failure; the exit code is 0   *)
(* exactly when the build succeeded and every discovered file ended with   *)
(* Success.  While the process runs it has no exit code.                   *)
(***************************************************************************)
C1_ExitCode ==
    /\ ~Exited => exit_code = -1
    /\ pc \in {"Completed", "BuildFailed"} =>
          (exit_code # 0 <=> (build_result # "ok" \/ Failures # {}))
    /\ Exited =>
          (exit_code = 0 <=>
              /\ build_result = "ok"
              /\ Len(outcomes) = Cardinality(Discovered)
              /\ \A k \in 1..Len(outcomes) : outcomes[k].outcome = "Success")

\* A completed run in which one file failed and two succeeded.
C1_Witness ==
    /\ pc = "Completed"
    /\ fail_count = 1
    /\ success_count = 2
    /\ exit_code = 1

(***************************************************************************)
(* C2: once the build has failed the run is over with a non-zero exit      *)
(* status and nothing else has happened: no discovery, no node subprocess, *)
(* no outcome, no change of any file.                                      *)
(***************************************************************************)
C2_BuildFailureHalts ==
    build_result \in {"nonzero", "oserror"} =>
        /\ Exited
        /\ exit_code # 0 /\ exit_code # -1
        /\ discoveries = 0
        /\ td_files = <<>>
        /\ launches = 0
        /\ inflight = {}
        /\ outcomes = <<>>
        /\ success_count = 0 /\ fail_count = 0
        /\ ProcessingLines = <<>>
        /\ written = {}
        /\ disk = disk0

\* The build failed over a tree that holds fixtures and a stale artifact.
C2_Witness ==
    /\ pc = "BuildFailed"
    /\ build_result = "nonzero"
    /\ Cardinality(Discovered) >= 2
    /\ \E a \in AstPathsOf(tree) : disk[a] = Stale

(***************************************************************************)
(* C3: in every run whose build succeeds each discovered file yields       *)
(* exactly one outcome: the counters add up to the number of files         *)
(* processed at every point of the loop, and once the process has exited   *)
(* every discovered file has its outcome.                                  *)
(***************************************************************************)
C3_OneOutcomePerFile ==
    /\ success_count + fail_count = Len(outcomes)
    /\ pc \in {"loop", "node", "record"} => Len(outcomes) = idx - 1
    /\ \A k \in 1..Len(outcomes) : outcomes[k].file = td_files[k]
    /\ (Exited /\ build_result = "ok") =>
          /\ Len(outcomes) = Cardinality(Discovered)
          /\ success_count + fail_count = Cardinality(Discovered)

(***************************************************************************)
(* C4: failure isolation.  When exactly one file makes the parser fail and *)
(* everything else goes well, the run completes, that file alone is a      *)
(* Failure, every other file is a Success with its artifact written, and   *)
(* the exit code is non-zero; after each outcome the loop is at the next   *)
(* file.                                                                   *)
(***************************************************************************)
ExactlyOneParseError ==
    /\ Cardinality({ k \in 1..Len(behav) : behav[k] = "parse_err" }) = 1
    /\ \A k \in 1..Len(behav) : behav[k] \in {"ok", "parse_err"}

C4_FailureIsolation ==
    /\ pc = "loop" => idx = Len(outcomes) + 1
    /\ (Exited /\ build_result = "ok" /\ ExactlyOneParseError) =>
          /\ pc = "Completed"
          /\ Len(outcomes) = Cardinality(Discovered)
          /\ \A k \in 1..Len(outcomes) :
                IF behav[k] = "parse_err"
                THEN /\ outcomes[k].outcome = "Failure"
                     /\ disk[AstPath(k)] = disk0[AstPath(k)]
                ELSE /\ outcomes[k].outcome = "Success"
                     /\ AstPath(k) \in written
                     /\ disk[AstPath(k)] = Artifact(TdFile(k))
          /\ success_count = Cardinality(Discovered) - 1
          /\ fail_count = 1
          /\ exit_code = 1

\* Three files, the parser fails on the middle one.
C4_Witness ==
    /\ pc = "Completed"
    /\ behav = <<"ok", "parse_err", "ok">>

(***************************************************************************)
(* C5: the artifact of a processed file is written during the run iff the  *)
(* file's outcome is Success; after a Failure the artifact path holds      *)
(* exactly what it held before the run.                                    *)
(***************************************************************************)
C5_WrittenIffSuccess ==
    \A k \in 1..Len(outcomes) :
        /\ AstPath(k) \in written <=> outcomes[k].outcome = "Success"
        /\ outcomes[k].outcome = "Failure" => disk[AstPath(k)] = disk0[AstPath(k)]

(***************************************************************************)
(* C6: only a build failure ends the run early.  Every per-file error, a   *)
(* failure to start node included, becomes a Failure of that file, the     *)
(* remaining files are processed and the summary is printed.               *)
(***************************************************************************)
C6_PerFileErrorsCaught ==
    (Exited /\ build_result = "ok") =>
        /\ pc = "Completed"
        /\ log[Len(log)].kind = "summary"
        /\ Len(behav) = Cardinality(Discovered)
        /\ \A k \in 1..Len(behav) :
              behav[k] # "ok" =>
                  k <= Len(outcomes) /\ outcomes[k].outcome = "Failure"

(***************************************************************************)
(* C7: the report follows the discovery order.  The k-th "Processing:"     *)
(* line and the k-th outcome line belong to the k-th fixture in ascending  *)
(* path order, whichever files succeed or fail.                            *)
(***************************************************************************)
C7_ReportInDiscoveryOrder ==
    LET D == Discovered
        P == ProcessingLines
        O == OutcomeLines
        R == ReportLines
        K == [k \in 1..Cardinality(D) |-> KthSmallest(D, k)]
    IN  /\ Len(P) <= Cardinality(D)
        /\ Len(O) = Len(outcomes)
        /\ \A k \in 1..Len(P) : P[k].arg = K[k]
        /\ \A k \in 1..Len(O) :
              /\ outcomes[k].file = K[k]
              /\ O[k].kind = "generated" <=> outcomes[k].outcome = "Success"
              /\ O[k].kind = "generated" => O[k].arg = with_suffix(K[k], AstSuffix)
        /\ \A n \in 1..Len(R) : R[n].kind = "processing" <=> n % 2 = 1

\* Three files reported, the first one failed, the others succeeded.
C7_Witness ==
    /\ pc = "Completed"
    /\ Len(OutcomeLines) = 3
    /\ outcomes[1].outcome = "Failure"
    /\ outcomes[2].outcome = "Success"
    /\ td_files[1] = fixtures_dir \o << <<97>>, <<120, 46, 116, 100>> >>
    /\ td_files[2] = fixtures_dir \o << <<97, 45, 98>>, <<120, 46, 116, 100>> >>
    /\ td_files[3] = fixtures_dir \o << <<97, 46, 116, 100>> >>

(***************************************************************************)
(* C8: idempotence.  A run in which every file succeeds, made right after  *)
(* a run in which every file succeeded, leaves every artifact with the     *)
(* content the earlier run left and reports the same counts and exit       *)
(* code 0.                                                                 *)
(***************************************************************************)
C8_Idempotent ==
    (run >= 2 /\ pc = "Completed" /\ exit_code = 0) =>
        LET p == prev[run - 1]
        IN  /\ \A a \in AstPathsOf(tree) : disk[a] = p.disk[a] /\ disk[a].exists
            /\ success_count = p.success_count
            /\ fail_count = p.fail_count
            /\ exit_code = p.exit_code

\* A second successful run over at least two fixtures.
C8_Witness ==
    /\ run = 2
    /\ pc = "Completed"
    /\ exit_code = 0
    /\ success_count >= 2

(***************************************************************************)
(* C9: the run follows NotStarted -> BuildFailed or NotStarted -> Running  *)
(* -> Completed and no other path: Running is left only for Completed and  *)
(* only when every discovered file is processed, BuildFailed and Completed *)
(* are terminal, and the build runs once, before discovery and parsing.    *)
(***************************************************************************)
C9_StateMachine ==
    /\ RunState \in {"NotStarted", "BuildFailed", "Running", "Completed"}
    /\ RunState = "NotStarted" => builds = 0 /\ discoveries = 0 /\ launches = 0
    /\ RunState = "Running" => builds = 1 /\ build_result = "ok"
    /\ RunState = "BuildFailed" =>
          builds = 1 /\ build_result # "ok" /\ discoveries = 0 /\ launches = 0
    /\ RunState = "Completed" =>
          /\ builds = 1 /\ build_result = "ok" /\ discoveries = 1
          /\ Len(outcomes) = Cardinality(Discovered)
          /\ launches = Cardinality(Discovered)
    /\ Exited => RunState \in {"BuildFailed", "Completed"}

(***************************************************************************)
(* C10: processing is sequential.  At most one node subprocess is in       *)
(* flight, and the one for a file is started only when every earlier       *)
(* file's subprocess has been awaited and its outcome counted and printed. *)
(***************************************************************************)
C10_Sequential ==
    /\ Cardinality(inflight) <= 1
    /\ inflight # {} =>
          /\ pc = "node"
          /\ inflight = {idx}
    /\ pc = "node" =>
          /\ launches = idx
          /\ Len(outcomes) = idx - 1
          /\ success_count + fail_count = idx - 1
          /\ Len(OutcomeLines) = idx - 1
          /\ Len(ProcessingLines) = idx

\* The second file's subprocess is in flight.
C10_Witness ==
    /\ pc = "node"
    /\ idx = 2
    /\ inflight = {2}

====
